---- MODULE Spec2Model ----
(***************************************************************************)
(* Model of kcdb/mod/modDecoder.go: DecodeModule and its extractors        *)
(* (unmarshalFpLine, unmarshalFpCircle, unmarshalFpArc, unmarshalFpPoly,   *)
(* unmarshalFpText, unmarshalPad, decodeDrill) walking the s-expression    *)
(* tree that github.com/nsf/sexp produced.                                 *)
(*                                                                         *)
(* A node is [v |-> Value, c |-> Children]: as in sexp.Node, a node is a   *)
(* list exactly when it has children.  Numbers are atoms; the float they   *)
(* parse to is kept in tenths (the atom "0.5" parses to 5, "1" and "1.0"   *)
(* both to 10).  A Go panic (a Must* call on a helper that is invalid or   *)
(* does not coerce) ends the call with status "panic".                     *)
(***************************************************************************)
EXTENDS Integers, Sequences, FiniteSets, TLC

VARIABLES ast, pc, i, out, status, err, returned

vars == <<ast, pc, i, out, status, err, returned>>

\* ------------------------------------------------------------------------
\* Bounds of the checked inputs.
MaxClauses == 2     \* clauses of a module, where clauses are combined freely
MaxShapeLen == 3    \* children of the root's only child, in the shape inputs
MaxTags == 3        \* trailing children of a tags or attr clause
MaxPts == 3         \* children of a pts clause
MaxDrillKids == 4   \* children of a drill clause after its keyword
MaxFontKids == 2    \* nested clauses of the first child of an effects clause

\* ------------------------------------------------------------------------
\* The tree and its navigation (github.com/nsf/sexp: Node and Helper).

Atom(s) == [v |-> s, c |-> <<>>]

List(kids) == [v |-> "", c |-> kids]

NodeIsList(n) == n.c # <<>>

NodeNumChildren(n) == Len(n.c)

Help(n) == [valid |-> TRUE, node |-> n]

Invalid == [valid |-> FALSE, node |-> Atom("")]

\* Helper.Child(k), k counted from 0: invalid when h is, or when there is no
\* such child.
Child(h, k) ==
    IF h.valid /\ k >= 0 /\ k < Len(h.node.c) THEN Help(h.node.c[k + 1])
    ELSE Invalid

IsValid(h) == h.valid

IsList(h) == h.valid /\ NodeIsList(h.node)

IsScalar(h) == h.valid /\ ~NodeIsList(h.node)

NumChildren(h) == NodeNumChildren(h.node)

\* strconv.ParseFloat on the atoms used here, in tenths.
FloatTable ==
    [s \in {"0", "1", "1.0", "2", "0.5", "3"} |->
        CASE s = "0" -> 0
          [] s = "1" -> 10
          [] s = "1.0" -> 10
          [] s = "2" -> 20
          [] s = "0.5" -> 5
          [] s = "3" -> 30]

\* strconv.ParseInt on the atoms used here.
IntTable ==
    [s \in {"0", "1", "2", "3"} |->
        CASE s = "0" -> 0
          [] s = "1" -> 1
          [] s = "2" -> 2
          [] s = "3" -> 3]

String(h) ==
    IF IsScalar(h) THEN [ok |-> TRUE, v |-> h.node.v]
    ELSE [ok |-> FALSE, v |-> ""]

Float64(h) ==
    IF IsScalar(h) /\ h.node.v \in DOMAIN FloatTable
    THEN [ok |-> TRUE, v |-> FloatTable[h.node.v]]
    ELSE [ok |-> FALSE, v |-> 0]

\* Helper.Int (Int itself is the set of integers here).
HelperInt(h) ==
    IF IsScalar(h) /\ h.node.v \in DOMAIN IntTable
    THEN [ok |-> TRUE, v |-> IntTable[h.node.v]]
    ELSE [ok |-> FALSE, v |-> 0]

\* ------------------------------------------------------------------------
\* The records (zero values as Go gives them).

Point2D(x, y) == [X |-> x, Y |-> y]

ZeroPoint == Point2D(0, 0)

\* Point2D{X: a.MustFloat64(), Y: b.MustFloat64()}: ok is FALSE when either
\* Must call panics.
MustPoint(a, b) ==
    IF Float64(a).ok /\ Float64(b).ok
    THEN [ok |-> TRUE, p |-> Point2D(Float64(a).v, Float64(b).v)]
    ELSE [ok |-> FALSE, p |-> ZeroPoint]

ZeroFpLine == [Start |-> ZeroPoint, End |-> ZeroPoint, Layer |-> "", Width |-> 0]

ZeroFpCircle == [Center |-> ZeroPoint, End |-> ZeroPoint, Layer |-> "", Width |-> 0]

ZeroFpArc ==
    [Start |-> ZeroPoint, End |-> ZeroPoint, Layer |-> "", Angle |-> 0, Width |-> 0]

ZeroFpPoly == [At |-> ZeroPoint, Points |-> <<>>, Layer |-> "", Width |-> 0]

ZeroFpText ==
    [Pos |-> ZeroPoint, Kind |-> "", Value |-> "", Layer |-> "", Hidden |-> FALSE,
     Size |-> ZeroPoint, Thickness |-> 0]

ZeroDrill == [Kind |-> "", Scalar |-> 0, Ellipse |-> ZeroPoint, Offset |-> ZeroPoint]

ZeroPad ==
    [Pin |-> 0, Kind |-> "", Shape |-> "", Drill |-> ZeroDrill,
     Pos |-> ZeroPoint, Size |-> ZeroPoint, Layers |-> <<>>]

ZeroModule ==
    [Name |-> "", Tedit |-> "", Description |-> "", Layer |-> "",
     Position |-> ZeroPoint, Clearance |-> 0, Model |-> "",
     SolderMaskMargin |-> 0, SolderPasteMargin |-> 0, SolderPasteRatio |-> 0,
     Tags |-> <<>>, Attrs |-> <<>>, Lines |-> <<>>, Arcs |-> <<>>,
     Circles |-> <<>>, Polygons |-> <<>>, Texts |-> <<>>, Pads |-> <<>>]

\* What an extractor or a loop body ends with: st is "ok" (val is the
\* record), "error" (a returned error: msg, and arg the keyword it carries)
\* or "panic".
Ok(val) == [st |-> "ok", val |-> val, msg |-> "", arg |-> ""]

Fail(val, msg, arg) == [st |-> "error", val |-> val, msg |-> msg, arg |-> arg]

Panic(val) == [st |-> "panic", val |-> val, msg |-> "", arg |-> ""]

\* ------------------------------------------------------------------------
\* The extractors.  Each loop operator is the for loop of its function from
\* index x on, with the record built so far.

\* n.Child(x).Child(0).MustString(): the keyword a sub-clause is switched on.
Keyword(n, x) == String(Child(Child(n, x), 0))

\* n.Child(x).Child(1).MustFloat64() and n.Child(x).Child(1).MustString()
Arg1Float(n, x) == Float64(Child(Child(n, x), 1))

Arg1String(n, x) == String(Child(Child(n, x), 1))

\* Point2D{X: n.Child(x).Child(1).MustFloat64(), Y: n.Child(x).Child(2).MustFloat64()}
ArgPoint(n, x) == MustPoint(Child(Child(n, x), 1), Child(Child(n, x), 2))

RECURSIVE FpLineLoop(_, _, _)
FpLineLoop(n, x, line) ==
    IF x >= NumChildren(n) THEN Ok(line)
    ELSE IF ~Keyword(n, x).ok THEN Panic(line)
    ELSE LET kw == Keyword(n, x).v IN
      CASE kw = "start" ->
             IF ArgPoint(n, x).ok
             THEN FpLineLoop(n, x + 1, [line EXCEPT !.Start = ArgPoint(n, x).p])
             ELSE Panic(line)
        [] kw = "end" ->
             IF ArgPoint(n, x).ok
             THEN FpLineLoop(n, x + 1, [line EXCEPT !.End = ArgPoint(n, x).p])
             ELSE Panic(line)
        [] kw = "layer" ->
             IF Arg1String(n, x).ok
             THEN FpLineLoop(n, x + 1, [line EXCEPT !.Layer = Arg1String(n, x).v])
             ELSE Panic(line)
        [] kw = "width" ->
             IF Arg1Float(n, x).ok
             THEN FpLineLoop(n, x + 1, [line EXCEPT !.Width = Arg1Float(n, x).v])
             ELSE Panic(line)
        [] OTHER -> FpLineLoop(n, x + 1, line)

unmarshalFpLine(n) == FpLineLoop(n, 1, ZeroFpLine)

RECURSIVE FpCircleLoop(_, _, _)
FpCircleLoop(n, x, circle) ==
    IF x >= NumChildren(n) THEN Ok(circle)
    ELSE IF ~Keyword(n, x).ok THEN Panic(circle)
    ELSE LET kw == Keyword(n, x).v IN
      CASE kw = "center" ->
             IF ArgPoint(n, x).ok
             THEN FpCircleLoop(n, x + 1, [circle EXCEPT !.Center = ArgPoint(n, x).p])
             ELSE Panic(circle)
        [] kw = "end" ->
             IF ArgPoint(n, x).ok
             THEN FpCircleLoop(n, x + 1, [circle EXCEPT !.End = ArgPoint(n, x).p])
             ELSE Panic(circle)
        [] kw = "layer" ->
             IF Arg1String(n, x).ok
             THEN FpCircleLoop(n, x + 1, [circle EXCEPT !.Layer = Arg1String(n, x).v])
             ELSE Panic(circle)
        [] kw = "width" ->
             IF Arg1Float(n, x).ok
             THEN FpCircleLoop(n, x + 1, [circle EXCEPT !.Width = Arg1Float(n, x).v])
             ELSE Panic(circle)
        [] OTHER -> FpCircleLoop(n, x + 1, circle)

unmarshalFpCircle(n) == FpCircleLoop(n, 1, ZeroFpCircle)

RECURSIVE FpArcLoop(_, _, _)
FpArcLoop(n, x, arc) ==
    IF x >= NumChildren(n) THEN Ok(arc)
    ELSE IF ~Keyword(n, x).ok THEN Panic(arc)
    ELSE LET kw == Keyword(n, x).v IN
      CASE kw = "start" ->
             IF ArgPoint(n, x).ok
             THEN FpArcLoop(n, x + 1, [arc EXCEPT !.Start = ArgPoint(n, x).p])
             ELSE Panic(arc)
        [] kw = "end" ->
             IF ArgPoint(n, x).ok
             THEN FpArcLoop(n, x + 1, [arc EXCEPT !.End = ArgPoint(n, x).p])
             ELSE Panic(arc)
        [] kw = "layer" ->
             IF Arg1String(n, x).ok
             THEN FpArcLoop(n, x + 1, [arc EXCEPT !.Layer = Arg1String(n, x).v])
             ELSE Panic(arc)
        [] kw = "width" ->
             IF Arg1Float(n, x).ok
             THEN FpArcLoop(n, x + 1, [arc EXCEPT !.Width = Arg1Float(n, x).v])
             ELSE Panic(arc)
        [] kw = "angle" ->
             IF Arg1Float(n, x).ok
             THEN FpArcLoop(n, x + 1, [arc EXCEPT !.Angle = Arg1Float(n, x).v])
             ELSE Panic(arc)
        [] OTHER -> FpArcLoop(n, x + 1, arc)

unmarshalFpArc(n) == FpArcLoop(n, 1, ZeroFpArc)

\* A vertex added in front.
AddPointFirst(pts, pt) == <<pt>> \o pts

\* p.Points = append(p.Points, Point2D{...})
AddPoint(pts, pt) == Append(pts, pt)

\* The inner loop of the pts case: s is n.Child(x), k the index in it,
\* pts the polygon's Points so far.
RECURSIVE PtsLoop(_, _, _)
PtsLoop(s, k, pts) ==
    IF k >= NumChildren(s) THEN Ok(pts)
    ELSE IF ~Keyword(s, k).ok THEN Panic(pts)
    ELSE IF Keyword(s, k).v = "xy"
         THEN IF ArgPoint(s, k).ok
              THEN PtsLoop(s, k + 1, AddPoint(pts, ArgPoint(s, k).p))
              ELSE Panic(pts)
         ELSE Fail(pts, "cannot handle expression of type %q in fp_poly.pts stanza",
                   Keyword(s, k).v)

RECURSIVE FpPolyLoop(_, _, _)
FpPolyLoop(n, x, p) ==
    IF x >= NumChildren(n) THEN Ok(p)
    ELSE IF ~Keyword(n, x).ok THEN Panic(p)
    ELSE LET kw == Keyword(n, x).v IN
      CASE kw = "at" ->
             IF ArgPoint(n, x).ok
             THEN FpPolyLoop(n, x + 1, [p EXCEPT !.At = ArgPoint(n, x).p])
             ELSE Panic(p)
        [] kw = "pts" ->
             LET r == PtsLoop(Child(n, x), 1, p.Points) IN
             IF r.st = "ok" THEN FpPolyLoop(n, x + 1, [p EXCEPT !.Points = r.val])
             ELSE IF r.st = "error" THEN Fail(ZeroFpPoly, r.msg, r.arg)
             ELSE Panic(p)
        [] kw = "layer" ->
             IF Arg1String(n, x).ok
             THEN FpPolyLoop(n, x + 1, [p EXCEPT !.Layer = Arg1String(n, x).v])
             ELSE Panic(p)
        [] kw = "width" ->
             IF Arg1Float(n, x).ok
             THEN FpPolyLoop(n, x + 1, [p EXCEPT !.Width = Arg1Float(n, x).v])
             ELSE Panic(p)
        [] OTHER -> FpPolyLoop(n, x + 1, p)

unmarshalFpPoly(n) == FpPolyLoop(n, 1, ZeroFpPoly)

\* The loop of the effects case: s is n.Child(x).Child(1), k the index in
\* it.
RECURSIVE EffectsLoop(_, _, _)
EffectsLoop(s, k, txt) ==
    IF k >= NumChildren(s) THEN Ok(txt)
    ELSE IF ~IsScalar(Child(Child(s, k), 0)) THEN EffectsLoop(s, k + 1, txt)
    ELSE LET kw == Keyword(s, k).v IN
      CASE kw = "size" ->
             IF ArgPoint(s, k).ok
             THEN EffectsLoop(s, k + 1, [txt EXCEPT !.Size = ArgPoint(s, k).p])
             ELSE Panic(txt)
        [] kw = "thickness" ->
             IF Arg1Float(s, k).ok
             THEN EffectsLoop(s, k + 1, [txt EXCEPT !.Thickness = Arg1Float(s, k).v])
             ELSE Panic(txt)
        [] OTHER -> EffectsLoop(s, k + 1, txt)

\* The effects clause itself.
EffectsClauseItself(n, x) == Child(n, x)

\* s := n.Child(x).Child(1): the node whose children the effects case
\* iterates.
EffectsNode(n, x) == Child(Child(n, x), 1)

RECURSIVE FpTextLoop(_, _, _)
FpTextLoop(n, x, txt) ==
    IF x >= NumChildren(n) THEN Ok(txt)
    ELSE IF IsScalar(Child(n, x)) /\ String(Child(n, x)).ok
         THEN FpTextLoop(n, x + 1,
                  IF String(Child(n, x)).v = "hide" THEN [txt EXCEPT !.Hidden = TRUE]
                  ELSE txt)
    ELSE IF ~Keyword(n, x).ok THEN Panic(txt)
    ELSE LET kw == Keyword(n, x).v IN
      CASE kw = "at" ->
             IF ArgPoint(n, x).ok
             THEN FpTextLoop(n, x + 1, [txt EXCEPT !.Pos = ArgPoint(n, x).p])
             ELSE Panic(txt)
        [] kw = "layer" ->
             IF Arg1String(n, x).ok
             THEN FpTextLoop(n, x + 1, [txt EXCEPT !.Layer = Arg1String(n, x).v])
             ELSE Panic(txt)
        [] kw = "effects" ->
             IF ~IsValid(EffectsNode(n, x)) THEN Panic(txt)
             ELSE LET r == EffectsLoop(EffectsNode(n, x), 1, txt) IN
                  IF r.st = "ok" THEN FpTextLoop(n, x + 1, r.val) ELSE Panic(txt)
        [] OTHER -> FpTextLoop(n, x + 1, txt)

unmarshalFpText(n) ==
    IF String(Child(n, 1)).ok /\ String(Child(n, 2)).ok
    THEN FpTextLoop(n, 3, [ZeroFpText EXCEPT !.Kind = String(Child(n, 1)).v,
                                             !.Value = String(Child(n, 2)).v])
    ELSE Panic(ZeroFpText)

\* The operand of the scalar branch's d.Scalar assignment.
DrillScalarArg(n, x) == Child(n, 1)

\* The kind branch of decodeDrill at index x: Kind, then Ellipse from the
\* two children that follow, then the return.
DrillKindBranch(n, x, d) ==
    LET e == MustPoint(Child(n, x + 1), Child(n, x + 2)) IN
    IF ~String(Child(n, x)).ok THEN Panic(d)
    ELSE IF ~e.ok THEN Panic([d EXCEPT !.Kind = String(Child(n, x)).v])
    ELSE Ok([d EXCEPT !.Kind = String(Child(n, x)).v, !.Ellipse = e.p])

RECURSIVE DrillLoop(_, _, _)
DrillLoop(n, x, d) ==
    IF x >= NumChildren(n) THEN Ok(d)
    ELSE IF IsList(Child(n, x))
         THEN IF ~Keyword(n, x).ok THEN Panic(d)
              ELSE IF Keyword(n, x).v = "offset"
                   THEN IF ArgPoint(n, x).ok
                        THEN DrillLoop(n, x + 1, [d EXCEPT !.Offset = ArgPoint(n, x).p])
                        ELSE Panic(d)
                   ELSE DrillLoop(n, x + 1, d)
    ELSE IF ~Float64(Child(n, x)).ok THEN DrillKindBranch(n, x, d)
    ELSE IF Float64(DrillScalarArg(n, x)).ok
         THEN DrillLoop(n, x + 1, [d EXCEPT !.Scalar = Float64(DrillScalarArg(n, x)).v])
         ELSE Panic(d)

decodeDrill(n) == DrillLoop(n, 1, ZeroDrill)

\* The loop of the layers case: s is n.Child(x).
RECURSIVE LayersLoop(_, _, _)
LayersLoop(s, k, layers) ==
    IF k >= NumChildren(s) THEN Ok(layers)
    ELSE IF String(Child(s, k)).ok
         THEN LayersLoop(s, k + 1, Append(layers, String(Child(s, k)).v))
         ELSE Panic(layers)

RECURSIVE PadLoop(_, _, _)
PadLoop(n, x, pad) ==
    IF x >= NumChildren(n) THEN Ok(pad)
    ELSE IF ~Keyword(n, x).ok THEN Panic(pad)
    ELSE LET kw == Keyword(n, x).v IN
      CASE kw = "at" ->
             IF ArgPoint(n, x).ok
             THEN PadLoop(n, x + 1, [pad EXCEPT !.Pos = ArgPoint(n, x).p])
             ELSE Panic(pad)
        [] kw = "size" ->
             IF ArgPoint(n, x).ok
             THEN PadLoop(n, x + 1, [pad EXCEPT !.Size = ArgPoint(n, x).p])
             ELSE Panic(pad)
        [] kw = "drill" ->
             LET r == decodeDrill(Child(n, x)) IN
             IF r.st = "ok" THEN PadLoop(n, x + 1, [pad EXCEPT !.Drill = r.val])
             ELSE IF r.st = "error" THEN Fail([pad EXCEPT !.Drill = r.val], r.msg, r.arg)
             ELSE Panic(pad)
        [] kw = "layers" ->
             LET r == LayersLoop(Child(n, x), 1, pad.Layers) IN
             IF r.st = "ok" THEN PadLoop(n, x + 1, [pad EXCEPT !.Layers = r.val])
             ELSE Panic(pad)
        [] OTHER -> PadLoop(n, x + 1, pad)

\* A pin that is never kept.
PadPinDropped(n) == 0

\* The pin of a pad: n.Child(1).Int(), kept only when it coerces.
PadPin(n) == IF HelperInt(Child(n, 1)).ok THEN HelperInt(Child(n, 1)).v ELSE 0

unmarshalPad(n) ==
    IF String(Child(n, 2)).ok /\ String(Child(n, 3)).ok
    THEN PadLoop(n, 4, [ZeroPad EXCEPT !.Kind = String(Child(n, 2)).v,
                                       !.Shape = String(Child(n, 3)).v,
                                       !.Pin = PadPin(n)])
    ELSE Panic(ZeroPad)

\* ------------------------------------------------------------------------
\* DecodeModule.

\* A prefix check that only asks for a string.
HasAnyPrefix(mainAST) == String(Child(Help(mainAST), 0)).ok

\* s, err2 := sexp.Help(mainAST).Child(0).String(); err2 == nil && s == "module"
HasModulePrefix(mainAST) ==
    /\ String(Child(Help(mainAST), 0)).ok
    /\ String(Child(Help(mainAST), 0)).v = "module"

\* The checks of the root's shape, in the order the code makes them: the
\* message of the first that fails, "" when all pass.
RootCheck(root) ==
    LET mainAST == IF Len(root.c) > 0 THEN root.c[1] ELSE Atom("") IN
    IF ~NodeIsList(root)
    THEN "invalid format: expected s-expression list at top level"
    ELSE IF NodeNumChildren(root) # 1
    THEN "invalid format: top level list of size 1"
    ELSE IF ~NodeIsList(mainAST)
    THEN "invalid format: expected s-expression list at 1st level"
    ELSE IF NodeNumChildren(mainAST) < 3
    THEN "invalid format: missing minimum elements"
    ELSE IF ~HasModulePrefix(mainAST)
    THEN "invalid format: missing module prefix"
    ELSE IF ~String(Child(Help(mainAST), 1)).ok
    THEN "invalid format: expected string value for module name"
    ELSE ""

\* mainAST, once the root has passed its checks.
MainAST == Help(ast.c[1])

\* The operand of t, err = ....String() in the tags and attr loops.
TagArg(n, x) == Child(n, 1)

\* The loop of the tags and attr cases over the trailing children of n.
RECURSIVE TagsLoop(_, _, _)
TagsLoop(n, x, tags) ==
    IF x >= NumChildren(n) THEN Ok(tags)
    ELSE IF ~String(TagArg(n, x)).ok
         THEN Fail(tags, "invalid format: tag value must be a string", "")
         ELSE TagsLoop(n, x + 1, Append(tags, String(TagArg(n, x)).v))

\* A default case that skips the clause.
UnknownClauseSkipped(n, m) == Ok(m)

\* The default case of the switch on a clause's keyword.
UnknownClause(n, m) ==
    Fail(m, "cannot handle expression: ", String(Child(n, 0)).v)

\* case "layer", "tedit", "descr", "model": a string field, or the error.
StringField(n, m, field, msg) ==
    IF String(Child(n, 1)).ok
    THEN Ok([m EXCEPT ![field] = String(Child(n, 1)).v])
    ELSE Fail(m, msg, "")

\* case "clearance", "solder_*": out.F = n.Child(1).MustFloat64()
FloatField(n, m, field) ==
    IF Float64(Child(n, 1)).ok
    THEN Ok([m EXCEPT ![field] = Float64(Child(n, 1)).v])
    ELSE Panic(m)

\* A record case: the extractor's record appended to the collection, or the
\* extractor's error returned.
RecordField(r, m, field) ==
    IF r.st = "ok" THEN Ok([m EXCEPT ![field] = Append(@, r.val)])
    ELSE IF r.st = "error" THEN Fail(m, r.msg, r.arg)
    ELSE Panic(m)

\* One pass of the loop over mainAST's children: clause n, module m so far.
ClauseStep(n, m) ==
    IF ~(IsList(n) /\ IsValid(Child(n, 1))) THEN Ok(m)
    ELSE IF ~String(Child(n, 0)).ok THEN Panic(m)
    ELSE LET kw == String(Child(n, 0)).v IN
      CASE kw \in {"zone_connect", "path", "autoplace_cost90", "autoplace_cost180"} ->
             Ok(m)
        [] kw = "layer" ->
             StringField(n, m, "Layer", "invalid format: layer value must be a string")
        [] kw = "tedit" ->
             StringField(n, m, "Tedit", "invalid format: tedit value must be a string")
        [] kw = "descr" ->
             StringField(n, m, "Description",
                         "invalid format: tedit value must be a string")
        [] kw = "tags" ->
             LET r == TagsLoop(n, 1, m.Tags) IN
             IF r.st = "ok" THEN Ok([m EXCEPT !.Tags = r.val]) ELSE Fail(m, r.msg, r.arg)
        [] kw = "attr" ->
             LET r == TagsLoop(n, 1, m.Attrs) IN
             IF r.st = "ok" THEN Ok([m EXCEPT !.Attrs = r.val]) ELSE Fail(m, r.msg, r.arg)
        [] kw = "at" ->
             IF MustPoint(Child(n, 1), Child(n, 2)).ok
             THEN Ok([m EXCEPT !.Position = MustPoint(Child(n, 1), Child(n, 2)).p])
             ELSE Panic(m)
        [] kw = "clearance" -> FloatField(n, m, "Clearance")
        [] kw = "solder_mask_margin" -> FloatField(n, m, "SolderMaskMargin")
        [] kw = "solder_paste_margin" -> FloatField(n, m, "SolderPasteMargin")
        [] kw = "solder_paste_ratio" -> FloatField(n, m, "SolderPasteRatio")
        [] kw = "model" ->
             StringField(n, m, "Model", "invalid format: model value must be a string")
        [] kw = "fp_line" -> RecordField(unmarshalFpLine(n), m, "Lines")
        [] kw = "fp_circle" -> RecordField(unmarshalFpCircle(n), m, "Circles")
        [] kw = "fp_arc" -> RecordField(unmarshalFpArc(n), m, "Arcs")
        [] kw = "fp_poly" -> RecordField(unmarshalFpPoly(n), m, "Polygons")
        [] kw = "fp_text" -> RecordField(unmarshalFpText(n), m, "Texts")
        [] kw = "pad" -> RecordField(unmarshalPad(n), m, "Pads")
        [] OTHER -> UnknownClause(n, m)

NoError == [msg |-> "", arg |-> ""]

\* Lines 108-132: the root's checks and the module's name.
ValidateRoot ==
    /\ pc = "start"
    /\ IF RootCheck(ast) = ""
       THEN /\ out' = [out EXCEPT !.Name = String(Child(MainAST, 1)).v]
            /\ i' = 2
            /\ pc' = "loop"
            /\ UNCHANGED <<status, err>>
       ELSE /\ status' = "error"
            /\ err' = [msg |-> RootCheck(ast), arg |-> ""]
            /\ pc' = "done"
            /\ UNCHANGED <<out, i>>
    /\ UNCHANGED <<ast, returned>>

\* Lines 134-229: one pass of the for loop.
DecodeClause ==
    /\ pc = "loop"
    /\ i < NumChildren(MainAST)
    /\ LET r == ClauseStep(Child(MainAST, i), out) IN
       IF r.st = "ok"
       THEN /\ out' = r.val
            /\ i' = i + 1
            /\ UNCHANGED <<pc, status, err>>
       ELSE /\ status' = r.st
            /\ err' = [msg |-> r.msg, arg |-> r.arg]
            /\ pc' = "done"
            /\ UNCHANGED <<out, i>>
    /\ UNCHANGED <<ast, returned>>

\* Line 231: return out, nil.
Return ==
    /\ pc = "loop"
    /\ i >= NumChildren(MainAST)
    /\ status' = "ok"
    /\ returned' = TRUE
    /\ pc' = "done"
    /\ UNCHANGED <<ast, i, out, err>>

Next == ValidateRoot \/ DecodeClause \/ Return

\* ------------------------------------------------------------------------
\* The inputs: trees the parser can hand to DecodeModule.

SeqsUpTo(S, n) == UNION {[1..k -> S] : k \in 0..n}

\* (k a1 ... an)
KW(k, args) == List(<<Atom(k)>> \o args)

\* (k a) and (k a b) with atoms
KW1(k, a) == KW(k, <<Atom(a)>>)

KW2(k, a, b) == KW(k, <<Atom(a), Atom(b)>>)

\* ((module M clause...)): a root whose shape is right.
ModuleRoot(clauses) == List(<<KW("module", <<Atom("M")>> \o clauses)>>)

\* Roots of every shape: no list, one or two children, the child an atom or
\* a list of 1..MaxShapeLen children.
ShapeKids ==
    {Atom("module"), Atom("footprint"), Atom("M"), List(<<Atom("x")>>),
     KW1("layer", "F.Cu"), KW1("bogus_clause", "1")}

ShapeMains ==
    {Atom("x")} \cup {List(s) : s \in SeqsUpTo(ShapeKids, MaxShapeLen) \ {<<>>}}

ShapeRoots ==
    {Atom("")} \cup {List(<<m>>) : m \in ShapeMains}
               \cup {List(<<m, Atom("x")>>) : m \in ShapeMains}

\* Module-level clauses of every kind, well formed and not.
BasicClauses ==
    {Atom("locked"), List(<<Atom("locked")>>), KW1("path", "x"),
     KW1("layer", "F.Cu"), KW("layer", <<List(<<Atom("x")>>)>>),
     KW1("tedit", "5"), KW("tedit", <<List(<<Atom("x")>>)>>),
     KW1("descr", "d"), KW("descr", <<List(<<Atom("x")>>)>>),
     KW1("model", "m.wrl"), KW("model", <<List(<<Atom("x")>>)>>),
     KW2("at", "1", "2"), KW1("at", "1"), KW2("at", "x", "2"),
     KW1("clearance", "0.5"), KW1("clearance", "abc"),
     KW1("solder_mask_margin", "1"), KW1("solder_mask_margin", "x"),
     KW1("solder_paste_margin", "2"), KW1("solder_paste_margin", "x"),
     KW1("solder_paste_ratio", "0.5"), KW1("solder_paste_ratio", "x"),
     KW2("tags", "a", "b"), KW1("attr", "smd"),
     KW1("bogus_clause", "1"), KW2("other_clause", "1", "2"),
     List(<<List(<<Atom("x")>>), Atom("1")>>),
     KW("fp_line", <<KW2("start", "0", "1"), KW2("end", "1", "1"),
                     KW1("layer", "F.Cu"), KW1("width", "0.5")>>),
     KW("fp_line", <<KW1("foo", "1")>>),
     KW("fp_line", <<KW2("start", "x", "1")>>),
     KW("fp_circle", <<KW2("center", "0", "1"), KW2("end", "1", "0"),
                       KW1("layer", "F.Cu"), KW1("width", "1")>>),
     KW("fp_arc", <<KW2("start", "0", "1"), KW2("end", "1", "0"),
                    KW1("angle", "2"), KW1("layer", "F.Cu"), KW1("width", "1")>>),
     KW("fp_poly", <<KW("pts", <<KW2("xy", "0", "0"), KW2("xy", "1", "0")>>)>>),
     KW("fp_text", <<Atom("reference"), Atom("R1"), KW2("at", "0", "1")>>),
     KW("pad", <<Atom("1"), Atom("smd"), Atom("rect"), KW2("size", "1", "2")>>),
     KW("pad", <<Atom("1")>>)}

\* The clauses that are combined freely.
CoreClauses ==
    {Atom("locked"), KW1("path", "x"),
     KW1("layer", "F.Cu"), KW("layer", <<List(<<Atom("x")>>)>>),
     KW1("model", "m.wrl"), KW2("at", "1", "2"), KW1("at", "1"),
     KW1("clearance", "0.5"), KW1("clearance", "abc"),
     KW2("tags", "a", "b"), KW1("bogus_clause", "1"),
     List(<<List(<<Atom("x")>>), Atom("1")>>),
     KW("fp_line", <<KW2("start", "0", "1"), KW2("end", "1", "1"),
                     KW1("layer", "F.Cu"), KW1("width", "0.5")>>),
     KW("pad", <<Atom("1"), Atom("smd"), Atom("rect"), KW2("size", "1", "2")>>)}

BasicRoots ==
    {ModuleRoot(<<a>>) : a \in BasicClauses}
    \cup {ModuleRoot(s) : s \in SeqsUpTo(CoreClauses, MaxClauses) \ {<<>>}}

\* An unrecognized clause between any two clauses.
BetweenRoots ==
    {ModuleRoot(<<a, KW2("bogus_clause", "1", "2"), b>>) :
        a \in BasicClauses, b \in BasicClauses}

\* tags and attr clauses with 1..MaxTags trailing children.
TagKids == {Atom("a"), Atom("b"), List(<<Atom("x")>>)}

TagRoots ==
    {ModuleRoot(<<KW(k, s)>>) :
        k \in {"tags", "attr"}, s \in SeqsUpTo(TagKids, MaxTags) \ {<<>>}}
    \cup
    {ModuleRoot(<<KW(k1, s1), KW(k2, s2)>>) :
        k1 \in {"tags", "attr"}, k2 \in {"tags", "attr"},
        s1 \in SeqsUpTo({Atom("a"), Atom("b")}, MaxTags - 1) \ {<<>>},
        s2 \in SeqsUpTo({Atom("a"), Atom("b")}, MaxTags - 1) \ {<<>>}}

\* Polygons: the children of a pts clause, good and bad.
GoodXY == {KW2("xy", "0", "0"), KW2("xy", "1", "0"), KW2("xy", "1", "1")}

PtsKids == GoodXY \cup {KW2("xz", "0", "0"), KW1("xy", "1")}

PolyRoots ==
    {ModuleRoot(<<KW("fp_poly", <<KW("pts", s)>>)>>) : s \in SeqsUpTo(PtsKids, MaxPts)}
    \cup
    {ModuleRoot(<<KW("fp_poly", <<KW("pts", s1), KW1("layer", "F.Cu"),
                                  KW("pts", s2), KW1("width", "1")>>)>>) :
        s1 \in SeqsUpTo(GoodXY, MaxPts - 1), s2 \in SeqsUpTo(GoodXY, MaxPts - 1)}
    \cup
    {ModuleRoot(<<KW("fp_poly", <<KW2("at", "1", "2"), KW("pts", s1)>>),
                  KW("fp_poly", <<KW("pts", s2)>>)>>) :
        s1 \in SeqsUpTo(GoodXY, MaxPts - 1), s2 \in SeqsUpTo(GoodXY, MaxPts - 1)}

\* Pads: the 2nd child (the pin), and drill clauses with 0..MaxDrillKids
\* children.
PinNodes ==
    {Atom("1"), Atom("2"), Atom(""), Atom("A1"), Atom("1.0"), List(<<Atom("1")>>)}

DrillKids ==
    {Atom("0.5"), Atom("1"), Atom("oval"), KW2("offset", "1", "2"), KW1("offset", "1")}

DrillClauses == {KW("drill", s) : s \in SeqsUpTo(DrillKids, MaxDrillKids)}

PadClause(pin, subs) == KW("pad", <<pin, Atom("thru_hole"), Atom("circle")>> \o subs)

PadSubs ==
    {<<>>,
     <<KW2("at", "1", "2"), KW2("size", "2", "1"), KW2("layers", "F.Cu", "B.Cu")>>,
     <<KW2("at", "1", "2"), KW1("drill", "0.5"), KW2("layers", "F.Cu", "B.Cu"),
       KW2("size", "2", "1")>>,
     <<KW("drill", <<Atom("oval"), Atom("1"), Atom("0.5")>>), KW1("layers", "F.Cu")>>,
     <<KW2("size", "x", "1")>>}

PadRoots ==
    {ModuleRoot(<<PadClause(Atom("1"), <<d>>)>>) : d \in DrillClauses}
    \cup {ModuleRoot(<<PadClause(p, subs)>>) : p \in PinNodes, subs \in PadSubs}

\* Texts: what an effects clause holds.
FontKids ==
    {KW2("size", "1", "2"), KW2("size", "2", "1"), KW1("thickness", "0.5"),
     KW1("justify", "mirror"), Atom("italic")}

FontClauses == {KW("font", s) : s \in SeqsUpTo(FontKids, MaxFontKids)}

EffectsClauses ==
    {KW("effects", <<f>>) : f \in FontClauses}
    \cup {KW("effects", <<f, KW1("justify", "mirror")>>) : f \in FontClauses}
    \cup {KW("effects", s) : s \in SeqsUpTo(FontKids, MaxFontKids)}

TextClauses ==
    {KW("fp_text", <<Atom("reference"), Atom("R1")>> \o pre \o <<e>>) :
        pre \in {<<>>, <<KW2("at", "1", "2"), Atom("hide"), KW1("layer", "F.SilkS")>>},
        e \in EffectsClauses}

TextRoots == {ModuleRoot(<<t>>) : t \in TextClauses}

Roots == ShapeRoots \cup BasicRoots \cup BetweenRoots \cup TagRoots \cup PolyRoots \cup PadRoots
         \cup TextRoots

Init ==
    /\ ast \in Roots
    /\ pc = "start"
    /\ i = 0
    /\ out = ZeroModule
    /\ status = "running"
    /\ err = NoError
    /\ returned = FALSE

Spec == Init /\ [][Next]_vars

\* ------------------------------------------------------------------------
\* The properties.  They read the input tree directly (a node is an atom
\* when it has no children) and compare what DecodeModule ended with.

IsAtomNode(n) == n.c = <<>>

\* The expectation about the root's shape that is violated first: 1 not a
\* list, 2 not exactly one child, 3 the child not a list, 4 the child has
\* fewer than 3 children, 5 its first element is not the atom module;
\* 0 when none is.
ShapeViolation ==
    IF IsAtomNode(ast) THEN 1
    ELSE IF Len(ast.c) # 1 THEN 2
    ELSE IF IsAtomNode(ast.c[1]) THEN 3
    ELSE IF Len(ast.c[1].c) < 3 THEN 4
    ELSE IF ast.c[1].c[1] # Atom("module") THEN 5
    ELSE 0

ShapeMessage ==
    <<"invalid format: expected s-expression list at top level",
      "invalid format: top level list of size 1",
      "invalid format: expected s-expression list at 1st level",
      "invalid format: missing minimum elements",
      "invalid format: missing module prefix">>

\* The module list's children, and its clauses' indices (counted from 0,
\* as the code counts them).
ModuleKids == ast.c[1].c

ClauseIndices == 2 .. (Len(ModuleKids) - 1)

ClauseAt(j) == ModuleKids[j + 1]

\* Clause n is dispatched on keyword k.
HeadIs(n, k) == Len(n.c) >= 2 /\ n.c[1] = Atom(k)

Done == pc = "done"

\* Clauses that are recognized and well formed.
WellFormedClauses ==
    {KW1("path", "x"), KW1("layer", "F.Cu"), KW1("tedit", "5"), KW1("descr", "d"),
     KW1("model", "m.wrl"), KW2("at", "1", "2"), KW1("clearance", "0.5"),
     KW1("solder_mask_margin", "1"), KW1("solder_paste_margin", "2"),
     KW1("solder_paste_ratio", "0.5"), KW2("tags", "a", "b"), KW1("attr", "smd"),
     KW("fp_line", <<KW2("start", "0", "1"), KW2("end", "1", "1"),
                     KW1("layer", "F.Cu"), KW1("width", "0.5")>>),
     KW("fp_circle", <<KW2("center", "0", "1"), KW2("end", "1", "0"),
                       KW1("layer", "F.Cu"), KW1("width", "1")>>),
     KW("fp_arc", <<KW2("start", "0", "1"), KW2("end", "1", "0"),
                    KW1("angle", "2"), KW1("layer", "F.Cu"), KW1("width", "1")>>),
     KW("fp_poly", <<KW("pts", <<KW2("xy", "0", "0"), KW2("xy", "1", "0")>>)>>),
     KW("fp_text", <<Atom("reference"), Atom("R1"), KW2("at", "0", "1")>>),
     KW("pad", <<Atom("1"), Atom("smd"), Atom("rect"), KW2("size", "1", "2")>>)}

Vocabulary ==
    {"zone_connect", "path", "autoplace_cost90", "autoplace_cost180",
     "layer", "tedit", "descr", "tags", "attr", "at", "clearance",
     "solder_mask_margin", "solder_paste_margin", "solder_paste_ratio", "model",
     "fp_line", "fp_circle", "fp_arc", "fp_poly", "fp_text", "pad"}

\* A clause that is a list with at least 2 children whose leading keyword
\* is not in the vocabulary.
Unrecognized(n) ==
    Len(n.c) >= 2 /\ IsAtomNode(n.c[1]) /\ n.c[1].v \notin Vocabulary

UnrecognizedAt == {j \in ClauseIndices : Unrecognized(ClauseAt(j))}

FirstUnrecognized == CHOOSE j \in UnrecognizedAt : \A k \in UnrecognizedAt : j <= k

UnrecognizedError(j) ==
    [msg |-> "cannot handle expression: ", arg |-> ClauseAt(j).c[1].v]

\* C2 as stated, for the calls that return: a module with a string name and
\* an unrecognized clause ends with the error that carries an unrecognized
\* keyword, whatever clauses come before it.
C2_Original ==
    (ShapeViolation = 0 /\ IsAtomNode(ModuleKids[2]) /\ UnrecognizedAt # {}
       /\ Done /\ status # "panic") =>
       /\ status = "error" /\ ~returned
       /\ \E j \in UnrecognizedAt : err = UnrecognizedError(j)

\* C2 amended: a module with an unrecognized clause never decodes to a
\* Module, the loop never passes its first unrecognized clause, and when the
\* loop reaches that clause the decode ends there with the error that
\* carries its keyword, whatever clauses come after it.
C2_Unrecognized ==
    (ShapeViolation = 0 /\ UnrecognizedAt # {}) =>
       /\ ~returned /\ status # "ok"
       /\ i <= FirstUnrecognized
       /\ (Done /\ i = FirstUnrecognized) =>
             /\ status = "error"
             /\ err = UnrecognizedError(FirstUnrecognized)

\* The loop stopped at an unrecognized clause that has clauses before and
\* after it.
C2_Witness ==
    /\ ShapeViolation = 0 /\ UnrecognizedAt # {}
    /\ Done /\ i = FirstUnrecognized /\ i = 3 /\ Len(ModuleKids) > 4
    /\ status = "error"

ScalarFields ==
    {"layer", "tedit", "descr", "model", "at", "clearance",
     "solder_mask_margin", "solder_paste_margin", "solder_paste_ratio"}

\* C3: decoding ends with a Module and no error, or with no Module and an
\* error; a scalar-field clause whose argument does not coerce ends the
\* decode with a returned error.
C3_AllOrNothing ==
    (Done /\ ShapeViolation = 0 /\ i \in ClauseIndices
          /\ \E k \in ScalarFields : HeadIs(ClauseAt(i), k)) =>
       /\ status = "error" /\ ~returned /\ err.msg # ""

\* The trailing children of a clause, as strings.
TrailingValues(n) == [k \in 1 .. (Len(n.c) - 1) |-> n.c[k + 1].v]

AllAtoms(n) == \A k \in 1 .. Len(n.c) : IsAtomNode(n.c[k])

\* The values the clauses with keyword kw list, clause after clause, from
\* clause j on.
RECURSIVE ListedFrom(_, _)
ListedFrom(kw, j) ==
    IF j >= Len(ModuleKids) THEN <<>>
    ELSE (IF HeadIs(ClauseAt(j), kw) THEN TrailingValues(ClauseAt(j)) ELSE <<>>)
         \o ListedFrom(kw, j + 1)

\* C4: a tags (attr) clause with trailing strings v1..vk appends exactly
\* v1, ..., vk, in order, to Tags (Attrs).
C4_TagsAppended ==
    (ShapeViolation = 0 /\ status = "ok"
       /\ \A j \in ClauseIndices :
             (HeadIs(ClauseAt(j), "tags") \/ HeadIs(ClauseAt(j), "attr"))
                => AllAtoms(ClauseAt(j))) =>
       /\ out.Tags = ListedFrom("tags", 2)
       /\ out.Attrs = ListedFrom("attr", 2)

\* ---- pads and drills

IsNum(n) == IsAtomNode(n) /\ n.v \in DOMAIN FloatTable

NumOf(n) == FloatTable[n.v]

\* The module holds one clause, a pad with its kind and shape.
SinglePad ==
    /\ ShapeViolation = 0 /\ Len(ModuleKids) = 3 /\ HeadIs(ClauseAt(2), "pad")
    /\ Len(ClauseAt(2).c) >= 4
    /\ IsAtomNode(ClauseAt(2).c[3]) /\ IsAtomNode(ClauseAt(2).c[4])

PadNode == ClauseAt(2)

\* The pad holds one sub-clause, a drill clause.
SinglePadDrill ==
    /\ SinglePad /\ Len(PadNode.c) = 5
    /\ Len(PadNode.c[5].c) >= 1 /\ PadNode.c[5].c[1] = Atom("drill")

\* The children of the drill clause after its keyword.
DrillArgs == Tail(PadNode.c[5].c)

IsOffset(n) ==
    Len(n.c) = 3 /\ n.c[1] = Atom("offset") /\ IsNum(n.c[2]) /\ IsNum(n.c[3])

NotOffset(n) == ~IsOffset(n)

IsKind(n) == IsAtomNode(n) /\ ~IsNum(n)

DrillOffsets == SelectSeq(DrillArgs, IsOffset)

DrillGeometry == SelectSeq(DrillArgs, NotOffset)

ScalarGeometry == Len(DrillGeometry) = 1 /\ IsNum(DrillGeometry[1])

EllipseGeometry ==
    /\ Len(DrillGeometry) = 3 /\ IsKind(DrillGeometry[1])
    /\ IsNum(DrillGeometry[2]) /\ IsNum(DrillGeometry[3])

\* A drill clause as the format writes it: a number, or a kind and two
\* numbers, and at most one offset sub-clause before or after.
WellFormedDrill ==
    /\ ScalarGeometry \/ EllipseGeometry
    /\ Len(DrillOffsets) <= 1
    /\ \/ DrillArgs = DrillOffsets \o DrillGeometry
       \/ DrillArgs = DrillGeometry \o DrillOffsets

ExpectedDrill ==
    [Kind |-> IF ScalarGeometry THEN "" ELSE DrillGeometry[1].v,
     Scalar |-> IF ScalarGeometry THEN NumOf(DrillGeometry[1]) ELSE 0,
     Ellipse |-> IF ScalarGeometry THEN ZeroPoint
                 ELSE Point2D(NumOf(DrillGeometry[2]), NumOf(DrillGeometry[3])),
     Offset |-> IF DrillOffsets = <<>> THEN ZeroPoint
                ELSE Point2D(NumOf(DrillOffsets[1].c[2]), NumOf(DrillOffsets[1].c[3]))]

\* C5: a numeric scalar child gives Kind "" and Scalar that number, a kind
\* keyword gives Kind and Ellipse from the two following children, and an
\* offset sub-clause sets Offset whichever branch gave the geometry and
\* whether it stands before or after it.
C5_DrillBranches ==
    (SinglePadDrill /\ WellFormedDrill /\ Done) =>
       /\ status = "ok"
       /\ out.Pads[1].Drill = ExpectedDrill

\* C6: whatever the children of a drill clause, the Drill never has both
\* Scalar and Ellipse assigned from it: Scalar only with Kind empty, Ellipse
\* only with Kind set.
C6_GeometryExclusive ==
    (SinglePadDrill /\ status = "ok") =>
       LET d == out.Pads[1].Drill IN
       /\ ~(d.Scalar # 0 /\ d.Ellipse # ZeroPoint)
       /\ d.Scalar # 0 => d.Kind = ""

\* C10: a kind keyword followed by no child or by one number ends the
\* decode with a returned error: no abnormal end, no Module.
C10_KindBounds ==
    (SinglePadDrill /\ Done
       /\ Len(DrillArgs) \in {1, 2} /\ IsKind(DrillArgs[1])
       /\ (Len(DrillArgs) = 2 => IsNum(DrillArgs[2]))) =>
       /\ status = "error" /\ ~returned

\* The pin the 2nd child of the pad stands for.
ExpectedPin ==
    IF IsAtomNode(PadNode.c[2]) /\ PadNode.c[2].v \in DOMAIN IntTable
    THEN IntTable[PadNode.c[2].v]
    ELSE 0

\* The pad decoded with its 2nd child replaced by the atom 0.
PadWithPinZero == unmarshalPad(Help([PadNode EXCEPT !.c[2] = Atom("0")]))

\* C8: a pad whose 2nd child coerces to an integer n has Pin n; any other
\* 2nd child leaves Pin 0 and raises no error; either way the rest of the
\* pad is decoded as it is for any other 2nd child.
C8_PadPin ==
    (SinglePad /\ Done) =>
       /\ status = PadWithPinZero.st
       /\ status = "ok" =>
             /\ Len(out.Pads) = 1
             /\ out.Pads[1].Pin = ExpectedPin
             /\ out.Pads[1] = [PadWithPinZero.val EXCEPT !.Pin = ExpectedPin]

\* A pad whose 2nd child is the empty string decodes, with Pin 0 and its
\* drill and layers.
C8_Witness ==
    /\ SinglePad /\ status = "ok" /\ PadNode.c[2] = Atom("")
    /\ out.Pads[1].Pin = 0
    /\ out.Pads[1].Layers # <<>> /\ out.Pads[1].Drill.Scalar = 5

\* ---- polygons

IsPolyClause(n) == HeadIs(n, "fp_poly")

\* The fp_poly clauses of the module, in order.
PolyClauses == SelectSeq(SubSeq(ModuleKids, 3, Len(ModuleKids)), IsPolyClause)

IsPts(s) == Len(s.c) >= 1 /\ s.c[1] = Atom("pts")

IsXY(k) == Len(k.c) >= 3 /\ k.c[1] = Atom("xy") /\ IsNum(k.c[2]) /\ IsNum(k.c[3])

\* The vertices a pts clause lists.
PtsOf(s) ==
    [k \in 1 .. (Len(s.c) - 1) |-> Point2D(NumOf(s.c[k + 1].c[2]), NumOf(s.c[k + 1].c[3]))]

\* The vertices the pts sub-clauses of polygon clause n list, from child x on.
RECURSIVE PointsFrom(_, _)
PointsFrom(n, x) ==
    IF x > Len(n.c) THEN <<>>
    ELSE (IF IsPts(n.c[x]) THEN PtsOf(n.c[x]) ELSE <<>>) \o PointsFrom(n, x + 1)

\* A polygon clause of pts sub-clauses with xy children, and at, layer and
\* width sub-clauses.
GoodPoly(n) ==
    \A x \in 2 .. Len(n.c) :
       \/ IsPts(n.c[x]) /\ \A k \in 2 .. Len(n.c[x].c) : IsXY(n.c[x].c[k])
       \/ n.c[x] \in {KW2("at", "1", "2"), KW1("layer", "F.Cu"), KW1("width", "1")}

\* C7: each polygon's Points is exactly the sequence of the xy children of
\* its own pts sub-clauses, in input order; a module of such polygons
\* decodes.
C7_PolyPoints ==
    /\ (ShapeViolation = 0 /\ status = "ok") =>
          /\ Len(out.Polygons) = Len(PolyClauses)
          /\ \A k \in 1 .. Len(PolyClauses) :
                out.Polygons[k].Points = PointsFrom(PolyClauses[k], 2)
    /\ (ShapeViolation = 0 /\ IsAtomNode(ModuleKids[2]) /\ Done
          /\ \A j \in ClauseIndices : IsPolyClause(ClauseAt(j)) /\ GoodPoly(ClauseAt(j)))
       => status = "ok"

\* Two polygons decoded, the first with its vertices in an order that is
\* not sorted, each with its own vertices only.
C7_Witness ==
    /\ ShapeViolation = 0 /\ status = "ok" /\ Len(out.Polygons) = 2
    /\ out.Polygons[1].Points = <<Point2D(10, 10), Point2D(0, 0)>>
    /\ out.Polygons[2].Points = <<Point2D(10, 0)>>

\* ---- texts

\* The module holds one clause, a text whose children after the value are
\* atoms, an at and a layer sub-clause, and effects sub-clauses.
SingleText ==
    /\ ShapeViolation = 0 /\ Len(ModuleKids) = 3 /\ HeadIs(ClauseAt(2), "fp_text")
    /\ Len(ClauseAt(2).c) >= 3
    /\ IsAtomNode(ClauseAt(2).c[2]) /\ IsAtomNode(ClauseAt(2).c[3])

TextNode == ClauseAt(2)

IsEffects(n) == Len(n.c) >= 1 /\ n.c[1] = Atom("effects")

EffectsAt == {x \in 4 .. Len(TextNode.c) : IsEffects(TextNode.c[x])}

\* The text has one effects sub-clause; the other children are atoms, or
\* at and layer sub-clauses with their arguments.
OneEffects ==
    /\ SingleText /\ Cardinality(EffectsAt) = 1
    /\ \A x \in (4 .. Len(TextNode.c)) \ EffectsAt :
          \/ IsAtomNode(TextNode.c[x])
          \/ TextNode.c[x] \in {KW2("at", "1", "2"), KW1("layer", "F.SilkS")}

EffectsNodeOf == TextNode.c[CHOOSE x \in EffectsAt : TRUE]

IsSize(k) == Len(k.c) = 3 /\ k.c[1] = Atom("size") /\ IsNum(k.c[2]) /\ IsNum(k.c[3])

IsThickness(k) == Len(k.c) = 2 /\ k.c[1] = Atom("thickness") /\ IsNum(k.c[2])

\* The size the last size clause nested in node s gives, (0, 0) without one.
SizeNestedIn(s) ==
    LET at == {k \in 2 .. Len(s.c) : IsSize(s.c[k])} IN
    IF at = {} THEN ZeroPoint
    ELSE LET k == CHOOSE k \in at : \A j \in at : j <= k IN
         Point2D(NumOf(s.c[k].c[2]), NumOf(s.c[k].c[3]))

ThicknessNestedIn(s) ==
    LET at == {k \in 2 .. Len(s.c) : IsThickness(s.c[k])} IN
    IF at = {} THEN 0
    ELSE LET k == CHOOSE k \in at : \A j \in at : j <= k IN NumOf(s.c[k].c[2])

====
